---- MODULE Spec2Model ----
(***************************************************************************)
(* Model of Smash::Action (src/src/action.cc) and of                       *)
(* smash::BinaryOutputParticles (src/src/binaryoutputparticles.cc).        *)
(*                                                                         *)
(* Arithmetic is exact: weights, masses and momenta are integers in a      *)
(* fixed unit, quotients are kept as fractions <<numerator, denominator>>  *)
(* and compared by cross-multiplication.  Rounding of float/double is not  *)
(* modelled.                                                               *)
(***************************************************************************)
EXTENDS Integers, Sequences, FiniteSets, TLC

VARIABLES
  incoming_particles_,  \* Action::incoming_particles_
  outgoing_particles_,  \* Action::outgoing_particles_
  subprocesses_,        \* Action::subprocesses_
  total_weight_,        \* Action::total_weight_
  op,                   \* the member function called last
  ret,                  \* what that call returned or threw
  log,                  \* the diagnostics that call emitted
  sqrt_s,               \* value of Action::sqrt_s() for the incoming particles
  particles,            \* the Particles container: id -> id_process
  actions,              \* the Actions found so far, with the caller's bookkeeping
  id_process,           \* the caller's process counter
  only_final_,          \* BinaryOutputParticles::only_final_
  file_,                \* what was written to file_, one element per write
  flushed,              \* how much of file_ the last fflush put on disk
  event                 \* the caller's position in the event loop

actionVars == <<incoming_particles_, outgoing_particles_, subprocesses_, total_weight_>>
callVars == <<op, ret, log>>
poolVars == <<particles, actions, id_process>>
outputVars == <<only_final_, file_, flushed, event>>
vars == <<actionVars, callVars, sqrt_s, poolVars, outputVars>>

----------------------------------------------------------------------------
(* Bounds *)
MaxBranches == 3
MaxBulk == 2
MaxWeight == 1
RDen == 4

(* PdgCode::invalid() *)
PdgInvalid == 0

NoRet == [kind |-> "void"]

(* Values of the variables a specification does not use. *)
IdleAction ==
  /\ incoming_particles_ = <<>>
  /\ outgoing_particles_ = <<>>
  /\ subprocesses_ = <<>>
  /\ total_weight_ = 0
IdleCall == op = "constructed" /\ ret = NoRet /\ log = {}
IdlePool == particles = <<>> /\ actions = <<>> /\ id_process = 0
IdleOutput == only_final_ = FALSE /\ file_ = <<>> /\ flushed = 0 /\ event = [n |-> 0, at |-> "none", steps |-> 0]

----------------------------------------------------------------------------
(* Process branches and the branch list of an Action *)

RECURSIVE SeqsUpTo(_, _)
SeqsUpTo(S, n) ==
  IF n = 0 THEN {<<>>}
  ELSE LET shorter == SeqsUpTo(S, n - 1)
       IN shorter \cup {Append(s, x) : s \in {t \in shorter : Len(t) = n - 1}, x \in S}

(* Final states a ProcessBranch can carry: none, one starting with the
   invalid code, and ones starting with a valid species. *)
BranchTypes == {<<>>, <<PdgInvalid>>, <<1>>, <<1, PdgInvalid>>}
ProcessBranch == [weight : 0..MaxWeight, particle_types : BranchTypes]

RECURSIVE SumWeights(_)
SumWeights(pv) ==
  IF pv = <<>> THEN 0 ELSE pv[1].weight + SumWeights(Tail(pv))

add_process(p) ==
  /\ Len(subprocesses_) < MaxBranches
  /\ total_weight_' = total_weight_ + p.weight
  /\ subprocesses_' = Append(subprocesses_, p)
  /\ op' = "add_process" /\ ret' = NoRet /\ log' = {}
  /\ UNCHANGED <<incoming_particles_, outgoing_particles_, sqrt_s, poolVars, outputVars>>

add_processes_noadoptsum(pv) ==
  /\ Len(subprocesses_) + Len(pv) <= MaxBranches
  /\ IF subprocesses_ = <<>>
       THEN /\ subprocesses_' = pv
            /\ total_weight_' = total_weight_
       ELSE /\ subprocesses_' = subprocesses_ \o pv
            /\ total_weight_' = total_weight_ + SumWeights(pv)
  /\ op' = "add_processes" /\ ret' = NoRet /\ log' = {}
  /\ UNCHANGED <<incoming_particles_, outgoing_particles_, sqrt_s, poolVars, outputVars>>

add_processes(pv) ==
  /\ Len(subprocesses_) + Len(pv) <= MaxBranches
  /\ IF subprocesses_ = <<>>
       THEN /\ subprocesses_' = pv
            /\ total_weight_' = total_weight_ + SumWeights(pv)
       ELSE /\ subprocesses_' = subprocesses_ \o pv
            /\ total_weight_' = total_weight_ + SumWeights(pv)
  /\ op' = "add_processes" /\ ret' = NoRet /\ log' = {}
  /\ UNCHANGED <<incoming_particles_, outgoing_particles_, sqrt_s, poolVars, outputVars>>

(* The test that makes choose_channel skip a branch. *)
IsSkippedEmptyOnly(proc) ==
  Len(proc.particle_types) < 1

IsSkipped(proc) ==
  \/ Len(proc.particle_types) < 1
  \/ proc.particle_types[1] = PdgInvalid

(* interaction_probability += proc.weight() / total_weight_.  The value is
   kept as the numerator over total_weight_; with total_weight_ = 0 the
   quotient is not a number (0/0) or infinite (w/0), and stays so under
   addition. *)
Finite(n) == [fp |-> "finite", num |-> n]

AddProbability(prob, w, W) ==
  IF W # 0 THEN (IF prob.fp = "finite" THEN Finite(prob.num + w) ELSE prob)
  ELSE IF prob.fp = "nan" \/ w = 0 THEN [fp |-> "nan", num |-> 0]
  ELSE [fp |-> "inf", num |-> 0]

(* random_interaction <= interaction_probability, for the draw r / RDen *)
DrawSelectsStrict(r, prob, W) ==
  CASE prob.fp = "nan" -> FALSE
    [] prob.fp = "inf" -> TRUE
    [] OTHER -> r * W < prob.num * RDen

DrawSelects(r, prob, W) ==
  CASE prob.fp = "nan" -> FALSE
    [] prob.fp = "inf" -> TRUE
    [] OTHER -> r * W <= prob.num * RDen

RECURSIVE ChannelLoop(_, _, _, _, _)
ChannelLoop(procs, W, r, i, prob) ==
  IF i > Len(procs)
    THEN [kind |-> "runtime_error", what |-> "problem in choose_channel", r |-> r]
  ELSE IF IsSkipped(procs[i])
    THEN ChannelLoop(procs, W, r, i + 1, prob)
  ELSE LET next == AddProbability(prob, procs[i].weight, W)
       IN IF DrawSelects(r, next, W)
            THEN [kind |-> "ParticleList", list |-> procs[i].particle_types,
                  branch |-> i, r |-> r]
            ELSE ChannelLoop(procs, W, r, i + 1, next)

choose_channel(r) ==
  /\ ret' = ChannelLoop(subprocesses_, total_weight_, r, 1, Finite(0))
  /\ op' = "choose_channel"
  /\ log' = IF ret'.kind = "runtime_error" THEN {"fatal: Problem in choose_channel"} ELSE {}
  /\ UNCHANGED <<actionVars, sqrt_s, poolVars, outputVars>>

(* The longest list add_processes is given here. *)
Room ==
  IF MaxBranches - Len(subprocesses_) < MaxBulk
    THEN MaxBranches - Len(subprocesses_) ELSE MaxBulk

Init ==
  /\ IdleAction /\ IdleCall /\ IdlePool /\ IdleOutput
  /\ sqrt_s = 0

Next ==
  \/ \E p \in ProcessBranch : add_process(p)
  \/ \E pv \in SeqsUpTo(ProcessBranch, Room) : add_processes(pv)
  \/ \E r \in 0..(RDen - 1) : choose_channel(r)

Spec == Init /\ [][Next]_vars

----------------------------------------------------------------------------
(* Properties of the branch list and of choose_channel, under Spec *)

Reordered(pv, f) == [i \in 1..Len(pv) |-> pv[f[i]]]

(* C1: after any sequence of add_process and add_processes calls on a fresh
   Action, weight() is the sum of the weights of the stored branches, and
   that sum is the same for every order of the same branches. *)
C1_WeightIsSumOfBranches ==
  /\ total_weight_ = SumWeights(subprocesses_)
  /\ \A f \in Permutations(1..Len(subprocesses_)) :
       total_weight_ = SumWeights(Reordered(subprocesses_, f))

C1_Witness ==
  /\ op = "add_processes"
  /\ Len(subprocesses_) = 3
  /\ subprocesses_[1].weight = 1 /\ subprocesses_[2].weight = 0 /\ subprocesses_[3].weight = 1
  /\ total_weight_ = 2

(* Sum of the weights of the first n branches. *)
RECURSIVE PrefixWeight(_, _)
PrefixWeight(pv, n) ==
  IF n = 0 THEN 0 ELSE PrefixWeight(pv, n - 1) + pv[n].weight

Selectable(proc) ==
  proc.particle_types # <<>> /\ Head(proc.particle_types) # PdgInvalid

(* Sum of the weights of the selectable branches among the first n. *)
RECURSIVE SelectablePrefixWeight(_, _)
SelectablePrefixWeight(pv, n) ==
  IF n = 0 THEN 0
  ELSE SelectablePrefixWeight(pv, n - 1) + (IF Selectable(pv[n]) THEN pv[n].weight ELSE 0)

Returned == op = "choose_channel" /\ ret.kind = "ParticleList"
Raised == op = "choose_channel" /\ ret.kind = "runtime_error"

(* C2 as stated: the branch i returned for the draw r satisfies
   sum(w1..w(i-1))/W < r <= sum(w1..wi)/W, the sums taken over all stored
   branches. *)
C2_Original ==
  Returned =>
    /\ PrefixWeight(subprocesses_, ret.branch - 1) * RDen < ret.r * total_weight_
    /\ ret.r * total_weight_ <= PrefixWeight(subprocesses_, ret.branch) * RDen

(* C2 amended: with c_j the sum of the weights of the selectable branches
   among the first j, divided by W > 0, choose_channel returns the final
   state of the first selectable branch i with r <= c_i (so c_(i-1) < r <= c_i
   when r > 0), and raises the error when there is none. *)
C2_FirstSelectableBranchCovering ==
  (op = "choose_channel" /\ total_weight_ > 0) =>
    LET W == total_weight_
        c(j) == SelectablePrefixWeight(subprocesses_, j)
        covers(j) == Selectable(subprocesses_[j]) /\ ret.r * W <= c(j) * RDen
    IN /\ Returned =>
            /\ covers(ret.branch)
            /\ \A j \in 1..(ret.branch - 1) : ~covers(j)
            /\ ret.r > 0 => c(ret.branch - 1) * RDen < ret.r * W
            /\ ret.list = subprocesses_[ret.branch].particle_types
       /\ Raised => \A j \in 1..Len(subprocesses_) : ~covers(j)

C2_Witness ==
  /\ Returned
  /\ ret.branch = 3
  /\ ret.r = 2
  /\ ~Selectable(subprocesses_[2]) /\ subprocesses_[2].weight > 0
  /\ Selectable(subprocesses_[1]) /\ subprocesses_[1].weight > 0

(* C3: choose_channel never returns the final state of a branch whose
   species list is empty or starts with the invalid code. *)
C3_NeverReturnsSkippedBranch ==
  Returned =>
    /\ ret.list = subprocesses_[ret.branch].particle_types
    /\ Len(ret.list) >= 1
    /\ ret.list[1] # PdgInvalid

C3_Witness ==
  /\ Returned
  /\ \E j \in 1..(ret.branch - 1) :
       /\ subprocesses_[j].particle_types = <<PdgInvalid>>
       /\ subprocesses_[j].weight > 0
  /\ \E j \in 1..(ret.branch - 1) :
       /\ subprocesses_[j].particle_types = <<>>
       /\ subprocesses_[j].weight > 0

(* C6: when the cached total weight is positive and equals the sum of the
   weights of the stored branches, choose_channel returns a branch for
   every draw; and it raises the error, instead of returning some branch,
   when no branch satisfies r <= cumulative. *)
C6_Original ==
  op = "choose_channel" =>
    /\ (total_weight_ > 0 /\ total_weight_ = SumWeights(subprocesses_)) => ~Raised
    /\ (\A j \in 1..Len(subprocesses_) :
          ~(/\ Selectable(subprocesses_[j])
            /\ ret.r * total_weight_ <= SelectablePrefixWeight(subprocesses_, j) * RDen))
         => Raised

----------------------------------------------------------------------------
(* Validity of Actions against the Particles container, under SpecPool *)

NParticles == 2
MaxActions == 2

(* has_data(id) is id \in DOMAIN particles; data(id).id_process() is
   particles[id]. *)
RECURSIVE is_valid_firstonly(_, _)
is_valid_firstonly(incoming, pool) ==
  IF incoming = <<>> THEN TRUE
  ELSE LET part == Head(incoming)
       IN IF part.id \notin DOMAIN pool THEN FALSE
          ELSE IF pool[part.id] # part.id_process THEN FALSE
          ELSE TRUE

RECURSIVE is_valid_noprocess(_, _)
is_valid_noprocess(incoming, pool) ==
  IF incoming = <<>> THEN TRUE
  ELSE LET part == Head(incoming)
       IN IF part.id \notin DOMAIN pool THEN FALSE
          ELSE is_valid_noprocess(Tail(incoming), pool)

RECURSIVE is_valid(_, _)
is_valid(incoming, pool) ==
  IF incoming = <<>> THEN TRUE
  ELSE LET part == Head(incoming)
       IN IF part.id \notin DOMAIN pool THEN FALSE
          ELSE IF pool[part.id] # part.id_process THEN FALSE
          ELSE is_valid(Tail(incoming), pool)

(* The incoming lists a finder hands to the constructor: one particle (a
   decay) or two distinct ones (a collision), copied from the container. *)
Snapshot(id) == [id |-> id, id_process |-> particles[id]]
IncomingLists ==
  {<<Snapshot(i)>> : i \in DOMAIN particles}
    \cup {<<Snapshot(q[1]), Snapshot(q[2])>> :
            q \in {t \in (DOMAIN particles) \X (DOMAIN particles) : t[1] < t[2]}}

(* Action::Action(in_part, time_of_execution); the action joins the
   caller's list of pending actions. *)
Construct(in_part) ==
  /\ Len(actions) < MaxActions
  /\ actions' = Append(actions, [incoming_particles_ |-> in_part, total_weight_ |-> 0,
                                 state |-> "pending", found |-> id_process, done |-> 0])
  /\ op' = "Action" /\ ret' = NoRet /\ log' = {}
  /\ UNCHANGED <<actionVars, sqrt_s, particles, id_process, outputVars>>

is_valid_call(a) ==
  /\ ret' = [kind |-> "bool", value |-> is_valid(actions[a].incoming_particles_, particles),
             action |-> a]
  /\ op' = "is_valid" /\ log' = {}
  /\ UNCHANGED <<actionVars, sqrt_s, poolVars, outputVars>>

(* The caller commits a pending action that is_valid accepts: each incoming
   particle is removed from the container or gets the new process id. *)
Commit(a, removed) ==
  /\ actions[a].state = "pending"
  /\ is_valid(actions[a].incoming_particles_, particles)
  /\ LET ids == {actions[a].incoming_particles_[i].id :
                   i \in 1..Len(actions[a].incoming_particles_)}
     IN /\ removed \subseteq ids
        /\ id_process' = id_process + 1
        /\ particles' = [i \in DOMAIN particles \ removed |->
                           IF i \in ids THEN id_process' ELSE particles[i]]
        /\ actions' = [actions EXCEPT ![a].state = "committed", ![a].done = id_process']
  /\ op' = "commit" /\ ret' = NoRet /\ log' = {}
  /\ UNCHANGED <<actionVars, sqrt_s, outputVars>>

(* The caller drops a pending action that is_valid rejects. *)
Discard(a) ==
  /\ actions[a].state = "pending"
  /\ ~is_valid(actions[a].incoming_particles_, particles)
  /\ actions' = [actions EXCEPT ![a].state = "discarded"]
  /\ op' = "discard" /\ ret' = NoRet /\ log' = {}
  /\ UNCHANGED <<actionVars, sqrt_s, particles, id_process, outputVars>>

InitPool ==
  /\ IdleAction /\ IdleCall /\ IdleOutput
  /\ sqrt_s = 0
  /\ particles = [i \in 1..NParticles |-> 0]
  /\ actions = <<>>
  /\ id_process = 0

NextPool ==
  \/ \E in_part \in IncomingLists : Construct(in_part)
  \/ \E a \in 1..Len(actions) : is_valid_call(a)
  \/ \E a \in 1..Len(actions) : \E removed \in SUBSET (1..NParticles) : Commit(a, removed)
  \/ \E a \in 1..Len(actions) : Discard(a)

SpecPool == InitPool /\ [][NextPool]_vars

Ids(a) == {actions[a].incoming_particles_[i].id : i \in 1..Len(actions[a].incoming_particles_)}

(* Every incoming snapshot of the action is in the container with the
   id_process the snapshot recorded. *)
Unmodified(incoming, pool) ==
  \A i \in 1..Len(incoming) :
    /\ incoming[i].id \in DOMAIN pool
    /\ pool[incoming[i].id] = incoming[i].id_process

(* C4: is_valid returns true exactly when every incoming snapshot's id is in
   the container with the id_process of the snapshot, and the call changes
   neither the container nor the Action. *)
C4_IsValidIffUnmodified ==
  [][op' = "is_valid" =>
       /\ ret'.value = Unmodified(actions[ret'.action].incoming_particles_, particles)
       /\ particles' = particles
       /\ actions' = actions]_vars

C4_Witness ==
  /\ op = "is_valid"
  /\ ret.value = FALSE
  /\ Len(actions[ret.action].incoming_particles_) = 2
  /\ actions[ret.action].incoming_particles_[1].id \in DOMAIN particles
  /\ particles[actions[ret.action].incoming_particles_[1].id]
       = actions[ret.action].incoming_particles_[1].id_process
  /\ actions[ret.action].incoming_particles_[2].id \in DOMAIN particles
  /\ particles[actions[ret.action].incoming_particles_[2].id]
       # actions[ret.action].incoming_particles_[2].id_process

(* Both actions were pending at the same time. *)
PendingTogether(a, b) ==
  /\ actions[a].state = "committed" => actions[b].found < actions[a].done
  /\ actions[b].state = "committed" => actions[a].found < actions[b].done

(* C5: of the Actions that are pending together and share an incoming
   particle at most one is ever committed; once one is committed the
   others are not valid any more. *)
C5_AtMostOneCommitPerParticle ==
  \A a, b \in 1..Len(actions) :
    (/\ a # b
     /\ Ids(a) \cap Ids(b) # {}
     /\ PendingTogether(a, b)
     /\ actions[a].state = "committed")
      => /\ actions[b].state # "committed"
         /\ ~Unmodified(actions[b].incoming_particles_, particles)

C5_Witness ==
  \E a, b \in 1..Len(actions) :
    /\ a # b /\ Ids(a) \cap Ids(b) # {} /\ PendingTogether(a, b)
    /\ actions[a].state = "committed" /\ actions[b].state = "discarded"
    /\ \E i \in Ids(a) \cap Ids(b) : i \in DOMAIN particles

----------------------------------------------------------------------------
(* sample_cms_momenta, under SpecKin *)

MaxSqrtS == 6

(* Fractions <<n, d>> with d > 0 *)
Frac(n) == <<n, 1>>
FracSub(a, b) == <<a[1] * b[2] - b[1] * a[2], a[2] * b[2]>>
FracMul(a, b) == <<a[1] * b[1], a[2] * b[2]>>
FracLess(a, b) == a[1] * b[2] < b[1] * a[2]

(* The particle types of the final states: two stable species, whose minimum
   mass is their mass, and two resonances with a pole mass above their
   minimum mass. *)
ParticleTypes ==
  <<[pdgcode |-> "pi", mass |-> 1, minimum_mass |-> 1, is_stable |-> TRUE],
    [pdgcode |-> "N", mass |-> 3, minimum_mass |-> 3, is_stable |-> TRUE],
    [pdgcode |-> "rho", mass |-> 3, minimum_mass |-> 2, is_stable |-> FALSE],
    [pdgcode |-> "Delta", mass |-> 5, minimum_mass |-> 4, is_stable |-> FALSE]>>

(* The directions Angles::distribute_isotropically can give, as unit
   three-vectors. *)
Directions ==
  {<<1, 0, 0>>, <<-1, 0, 0>>, <<0, 1, 0>>, <<0, -1, 0>>, <<0, 0, 1>>, <<0, 0, -1>>}

Negated(u) == <<-u[1], -u[2], -u[3]>>

(* std::sqrt of a fraction, kept as its radicand: the non-negative root, and
   not a number when the radicand is negative. *)
Sqrt(x) == [sqrt_of |-> x]
IsNaN(root) == root.sqrt_of[1] < 0
IsPositive(root) == root.sqrt_of[1] > 0

(* A three-vector unit * radial, and a four-vector of an energy and it. *)
ThreeVector(unit, radial) == [unit |-> unit, radial |-> radial]
FourVector(x0, three) == [x0 |-> x0, three |-> three]
ZeroMomentum == FourVector(Frac(0), ThreeVector(<<0, 0, 0>>, Sqrt(Frac(0))))

(* sample_resonance_mass(type_resonance, type_stable, cms_energy): some mass
   from the minimum mass of the resonance up to what the partner leaves. *)
sample_resonance_mass(t_res, t_other, cms_energy) ==
  IF cms_energy - t_other.mass >= t_res.minimum_mass
    THEN t_res.minimum_mass..(cms_energy - t_other.mass)
    ELSE {t_res.minimum_mass}

NotEnoughEnergyPole(cms_energy, t_a, t_b) ==
  cms_energy < t_a.mass + t_b.mass

NotEnoughEnergy(cms_energy, t_a, t_b) ==
  cms_energy < t_a.minimum_mass + t_b.minimum_mass

EnergyASwapped(cms_energy, mass_a, mass_b) ==
  <<cms_energy * cms_energy - mass_a * mass_a + mass_b * mass_b, 2 * cms_energy>>

EnergyA(cms_energy, mass_a, mass_b) ==
  <<cms_energy * cms_energy + mass_a * mass_a - mass_b * mass_b, 2 * cms_energy>>

sample_cms_momenta ==
  /\ Len(outgoing_particles_) = 2
  /\ LET t_a == ParticleTypes[outgoing_particles_[1].type]
         t_b == ParticleTypes[outgoing_particles_[2].type]
         cms_energy == sqrt_s
     IN IF NotEnoughEnergy(cms_energy, t_a, t_b)
          THEN /\ ret' = [kind |-> "InvalidResonanceFormation"]
               /\ log' = {}
               /\ outgoing_particles_' = outgoing_particles_
          ELSE \E mass_a \in (IF ~t_a.is_stable
                                THEN sample_resonance_mass(t_a, t_b, cms_energy)
                                ELSE {t_a.mass}) :
               \E mass_b \in (IF t_a.is_stable /\ ~t_b.is_stable
                                THEN sample_resonance_mass(t_b, t_a, cms_energy)
                                ELSE {t_b.mass}) :
               \E phitheta \in Directions :
                 LET energy_a == EnergyA(cms_energy, mass_a, mass_b)
                     momentum_radial ==
                       Sqrt(FracSub(FracMul(energy_a, energy_a), Frac(mass_a * mass_a)))
                 IN /\ outgoing_particles_' =
                         <<[outgoing_particles_[1] EXCEPT !.momentum =
                              FourVector(energy_a, ThreeVector(phitheta, momentum_radial))],
                           [outgoing_particles_[2] EXCEPT !.momentum =
                              FourVector(FracSub(Frac(cms_energy), energy_a),
                                         ThreeVector(Negated(phitheta), momentum_radial))]>>
                    /\ log' = (IF ~IsPositive(momentum_radial)
                                 THEN {"warn: radial momenta"} ELSE {})
                              \cup (IF ~FracLess(Frac(mass_a), energy_a)
                                      THEN {"info: radial momenta", "info: Etot"} ELSE {})
                    /\ ret' = NoRet
  /\ op' = "sample_cms_momenta"
  /\ UNCHANGED <<incoming_particles_, subprocesses_, total_weight_, sqrt_s, poolVars, outputVars>>

InitKin ==
  /\ IdleCall /\ IdlePool /\ IdleOutput
  /\ incoming_particles_ = <<>>
  /\ subprocesses_ = <<>>
  /\ total_weight_ = 0
  /\ sqrt_s \in 1..MaxSqrtS
  /\ \E a, b \in 1..Len(ParticleTypes) :
       outgoing_particles_ = <<[type |-> a, momentum |-> ZeroMomentum],
                               [type |-> b, momentum |-> ZeroMomentum]>>

NextKin == sample_cms_momenta

SpecKin == InitKin /\ [][NextKin]_vars

TypeA == ParticleTypes[outgoing_particles_[1].type]
TypeB == ParticleTypes[outgoing_particles_[2].type]
BelowThreshold == sqrt_s < TypeA.minimum_mass + TypeB.minimum_mass

(* C7: sample_cms_momenta fails with InvalidResonanceFormation whenever
   sqrt_s is below the sum of the two minimum masses, and then leaves both
   outgoing particles as they were; at or above that sum it does not raise
   this error. *)
C7_ThrowsIffBelowThreshold ==
  [][op' = "sample_cms_momenta" =>
       /\ BelowThreshold =>
            /\ ret'.kind = "InvalidResonanceFormation"
            /\ outgoing_particles_' = outgoing_particles_
       /\ ~BelowThreshold => ret'.kind # "InvalidResonanceFormation"]_vars

C7_Witness ==
  /\ op = "sample_cms_momenta"
  /\ ret.kind = "InvalidResonanceFormation"
  /\ TypeA.pdgcode = "rho" /\ TypeB.pdgcode = "N"
  /\ sqrt_s = 4
  /\ outgoing_particles_[1].momentum = ZeroMomentum
  /\ outgoing_particles_[2].momentum = ZeroMomentum

(* C8: for two stable species at or above the threshold, after
   sample_cms_momenta E_a + E_b = sqrt_s with
   E_a = (s + m_a^2 - m_b^2) / (2 sqrt_s), and the three-momenta have the
   same magnitude and opposite directions. *)
C8_BackToBackAndEnergySum ==
  (/\ op = "sample_cms_momenta"
   /\ TypeA.is_stable /\ TypeB.is_stable
   /\ ~BelowThreshold) =>
    LET p_a == outgoing_particles_[1].momentum
        p_b == outgoing_particles_[2].momentum
    IN /\ p_a.x0[2] # 0 /\ p_b.x0[2] # 0
       /\ (p_a.x0[1] * p_b.x0[2] + p_b.x0[1] * p_a.x0[2]) = sqrt_s * p_a.x0[2] * p_b.x0[2]
       /\ p_a.x0[1] * 2 * sqrt_s
            = (sqrt_s * sqrt_s + TypeA.mass * TypeA.mass - TypeB.mass * TypeB.mass) * p_a.x0[2]
       /\ p_a.three.unit \in Directions
       /\ \A k \in 1..3 : p_b.three.unit[k] = 0 - p_a.three.unit[k]
       /\ ~IsNaN(p_a.three.radial)
       /\ p_a.three.radial.sqrt_of[1] * p_b.three.radial.sqrt_of[2]
            = p_b.three.radial.sqrt_of[1] * p_a.three.radial.sqrt_of[2]

C8_Witness ==
  /\ op = "sample_cms_momenta" /\ ret = NoRet
  /\ TypeA.pdgcode = "pi" /\ TypeB.pdgcode = "N"
  /\ sqrt_s = 5
  /\ outgoing_particles_[1].momentum.three.unit = <<0, 0, -1>>
  /\ IsPositive(outgoing_particles_[1].momentum.three.radial)

----------------------------------------------------------------------------
(* check_conservation, under SpecCons.  Momenta are integer four-vectors
   <<x0, x1, x2, x3>> in units of really_small. *)

MaxMom == 2
MaxIncoming == 1
MaxOutgoing == 1

(* really_small, in its own unit *)
really_small == 1

Momenta ==
  {<<e, 0, 0, 0>> : e \in 0..MaxMom}
    \cup {<<e, MaxMom, 0, 0>> : e \in 0..MaxMom}
    \cup {<<e, 0, MaxMom, 0>> : e \in 0..MaxMom}
    \cup {<<e, 0, 0, MaxMom>> : e \in 0..MaxMom}

Plus(p, q) == [k \in 1..4 |-> p[k] + q[k]]
Minus(p, q) == [k \in 1..4 |-> p[k] - q[k]]

RECURSIVE AddAll(_, _)
AddAll(acc, parts) ==
  IF parts = <<>> THEN acc ELSE AddAll(Plus(acc, Head(parts).momentum), Tail(parts))

RECURSIVE SubtractAll(_, _)
SubtractAll(acc, parts) ==
  IF parts = <<>> THEN acc ELSE SubtractAll(Minus(acc, Head(parts).momentum), Tail(parts))

fabs(x) == IF x < 0 THEN 0 - x ELSE x

ExceedsNoFabs(x) == x > really_small

Exceeds(x) == fabs(x) > really_small

check_conservation(id) ==
  /\ LET momentum_difference ==
           SubtractAll(AddAll(<<0, 0, 0, 0>>, incoming_particles_), outgoing_particles_)
     IN log' =
          (IF Exceeds(momentum_difference[1])
             THEN {[warn |-> "E conservation violation", process |-> id,
                    value |-> momentum_difference[1]]} ELSE {})
          \cup (IF Exceeds(momentum_difference[2])
                  THEN {[warn |-> "px conservation violation",
                         value |-> momentum_difference[2]]} ELSE {})
          \cup (IF Exceeds(momentum_difference[3])
                  THEN {[warn |-> "py conservation violation",
                         value |-> momentum_difference[3]]} ELSE {})
          \cup (IF Exceeds(momentum_difference[4])
                  THEN {[warn |-> "pz conservation violation",
                         value |-> momentum_difference[4]]} ELSE {})
  /\ op' = "check_conservation" /\ ret' = NoRet
  /\ UNCHANGED <<actionVars, sqrt_s, poolVars, outputVars>>

WithMomenta(n, m) ==
  {s \in SeqsUpTo([momentum : Momenta], m) : Len(s) >= n}

InitCons ==
  /\ IdleCall /\ IdlePool /\ IdleOutput
  /\ sqrt_s = 0
  /\ subprocesses_ = <<>>
  /\ total_weight_ = 0
  /\ incoming_particles_ \in WithMomenta(1, MaxIncoming)
  /\ outgoing_particles_ \in WithMomenta(0, MaxOutgoing)

NextCons == \E id \in 1..2 : check_conservation(id)

SpecCons == InitCons /\ [][NextCons]_vars

RECURSIVE Total(_, _)
Total(parts, k) ==
  IF parts = <<>> THEN 0 ELSE parts[1].momentum[k] + Total(Tail(parts), k)

Difference(k) == Total(incoming_particles_, k) - Total(outgoing_particles_, k)

WarningFor(k) ==
  <<"E conservation violation", "px conservation violation",
    "py conservation violation", "pz conservation violation">>[k]

(* C9: check_conservation emits the diagnostic of a component exactly when
   the absolute difference of incoming and outgoing sums of that component
   exceeds the tolerance, returns normally, and changes nothing of the
   Action. *)
C9_WarnsIffBeyondTolerance ==
  [][op' = "check_conservation" =>
       /\ \A k \in 1..4 :
            (\E w \in log' : w.warn = WarningFor(k))
              <=> (Difference(k) > really_small \/ Difference(k) < 0 - really_small)
       /\ ret' = NoRet
       /\ incoming_particles_' = incoming_particles_
       /\ outgoing_particles_' = outgoing_particles_
       /\ subprocesses_' = subprocesses_
       /\ total_weight_' = total_weight_]_vars

C9_Witness ==
  /\ op = "check_conservation"
  /\ Difference(1) = 0 - 2
  /\ Difference(2) = 0
  /\ Difference(3) = 0 - 2
  /\ log = {[warn |-> "E conservation violation", process |-> 2, value |-> 0 - 2],
            [warn |-> "py conservation violation", value |-> 0 - 2]}

----------------------------------------------------------------------------
(* BinaryOutputParticles, under SpecOut.  file_ holds what the callbacks
   write after the header of the file. *)

MaxEvents == 2
MaxOutputTimes == 1
MaxParticles == 1

(* The impact parameters and the particle lists the callbacks are given. *)
ImpactParameters == {0, 1}
ParticleLists == {[i \in 1..n |-> [particle |-> i]] : n \in 0..MaxParticles}

(* fwrite of 'p', write(particles.size()), write(particles) *)
PBlock(ps) == <<[char |-> "p"], [uint32 |-> Len(ps)]>> \o ps

(* fwrite of 'f', write(event_number), write(impact_parameter) *)
FLine(event_number, impact_parameter) ==
  <<[char |-> "f"], [int |-> event_number], [double |-> impact_parameter]>>

at_eventstart(ps) ==
  /\ event.at \in {"none", "end"}
  /\ event.n < MaxEvents
  /\ file_' = IF ~only_final_ THEN file_ \o PBlock(ps) ELSE file_
  /\ event' = [event EXCEPT !.at = "start", !.steps = 0]
  /\ op' = "at_eventstart" /\ ret' = NoRet /\ log' = {}
  /\ UNCHANGED <<actionVars, sqrt_s, poolVars, only_final_, flushed>>

EndBlockInverted(ps) == IF ~only_final_ THEN PBlock(ps) ELSE <<>>

EndBlock(ps) == IF only_final_ THEN PBlock(ps) ELSE <<>>

at_eventend(ps, event_number, impact_parameter) ==
  /\ event.at \in {"start", "time"}
  /\ event_number = event.n
  /\ file_' = file_ \o EndBlock(ps) \o FLine(event_number, impact_parameter)
  /\ flushed' = Len(file_')
  /\ event' = [event EXCEPT !.at = "end", !.n = @ + 1]
  /\ op' = "at_eventend" /\ ret' = NoRet /\ log' = {}
  /\ UNCHANGED <<actionVars, sqrt_s, poolVars, only_final_>>

at_intermediate_time(ps) ==
  /\ event.at \in {"start", "time"}
  /\ event.steps < MaxOutputTimes
  /\ file_' = IF ~only_final_ THEN file_ \o PBlock(ps) ELSE file_
  /\ event' = [event EXCEPT !.at = "time", !.steps = @ + 1]
  /\ op' = "at_intermediate_time" /\ ret' = NoRet /\ log' = {}
  /\ UNCHANGED <<actionVars, sqrt_s, poolVars, only_final_, flushed>>

InitOut ==
  /\ IdleAction /\ IdleCall /\ IdlePool
  /\ sqrt_s = 0
  /\ only_final_ \in BOOLEAN
  /\ file_ = <<>>
  /\ flushed = 0
  /\ event = [n |-> 0, at |-> "none", steps |-> 0]

NextOut ==
  \/ \E ps \in ParticleLists : at_eventstart(ps)
  \/ \E ps \in ParticleLists : at_intermediate_time(ps)
  \/ \E ps \in ParticleLists : \E b \in ImpactParameters : at_eventend(ps, event.n, b)

SpecOut == InitOut /\ [][NextOut]_vars

WritesPBlock == \E ps \in ParticleLists : file_' = file_ \o PBlock(ps)
WritesNothing == file_' = file_
WritesFLine(before) ==
  \E b \in ImpactParameters : file_' = before \o FLine(event.n, b)

(* C10 as stated: each of at_eventstart, at_intermediate_time and
   at_eventend writes one 'p' block, and at_eventend then writes one 'f'
   line as the last record and flushes. *)
C10_Original ==
  [][/\ op' \in {"at_eventstart", "at_intermediate_time"} => WritesPBlock
     /\ op' = "at_eventend" =>
          /\ \E ps \in ParticleLists : WritesFLine(file_ \o PBlock(ps))
          /\ flushed' = Len(file_')]_vars

(* C10 amended: at_eventstart and at_intermediate_time write one 'p' block
   when only_final_ is false and nothing when it is true; at_eventend writes
   one 'p' block when only_final_ is true and none when it is false, then
   one 'f' line with the event number as the last record, and flushes. *)
C10_PBlocksAsOnlyFinalSays ==
  [][/\ op' \in {"at_eventstart", "at_intermediate_time"} =>
          /\ ~only_final_ => WritesPBlock
          /\ only_final_ => WritesNothing
          /\ flushed' = flushed
     /\ op' = "at_eventend" =>
          /\ only_final_ => \E ps \in ParticleLists : WritesFLine(file_ \o PBlock(ps))
          /\ ~only_final_ => WritesFLine(file_)
          /\ flushed' = Len(file_')]_vars

C10_Witness ==
  /\ op = "at_eventend"
  /\ ~only_final_
  /\ event.n = 2
  /\ flushed = Len(file_)
  /\ Len(SelectSeq(file_, LAMBDA x : x = [char |-> "p"])) = 3
  /\ Len(SelectSeq(file_, LAMBDA x : x = [char |-> "f"])) = 2
  /\ file_[Len(file_) - 2] = [char |-> "f"]

====
